---- MODULE Spec2Model ----
(***************************************************************************)
(* Model of simulator.cpp: a 13-bit instruction simulator.  A run opens    *)
(* the program file, initialises the 4 registers, loads the tokens into    *)
(* memory, checks for the Stop token and for invalid opcodes, then walks   *)
(* memory once, dispatching on the 5-character opcode of each token.       *)
(*                                                                         *)
(* A token is a sequence of characters; "x" stands for any character that  *)
(* is neither '0' nor '1'.  Register and array maps are functions whose    *)
(* domain is the set of keys of the std::map.                              *)
(***************************************************************************)
EXTENDS Integers, Sequences, FiniteSets, TLC

VARIABLES phase, memory, it, registers, arrays, exitStatus, err,
          readLog, written, reported, callArg, callResult

\* callArg and callResult are the argument and the returned value of a call
\* of a decoding function exercised on its own (callResult is <<>> until it
\* returns, then <<value>>)
decoder == <<callArg, callResult>>

vars == <<phase, memory, it, registers, arrays, exitStatus, err,
          readLog, written, reported, callArg, callResult>>

-----------------------------------------------------------------------------
(* Bounds of the model *)

\* longest program loaded from the file
MaxProg == 3

\* longest program of the List instructions (ListSpec)
MaxListProg == 4

\* largest std::vector the machine can allocate; a larger request throws
\* std::bad_alloc
MaxAlloc == 3

-----------------------------------------------------------------------------
(* unsigned int arithmetic *)
(* An unsigned int is 32 bits wide.  A value is held as two 16-bit halves,  *)
(* [hi, lo] standing for hi * 2^16 + lo, and the operations are carried out *)
(* on the halves, so that every intermediate result stays below 2^31.       *)

Half == 2 ^ 16

U32(h, l) == [hi |-> h, lo |-> l]

Zero32 == U32(0, 0)

\* the largest unsigned int, 2^32 - 1
UIntMax == U32(Half - 1, Half - 1)

\* conversion of a non-negative int below 2^31
FromNat(n) == U32(n \div Half, n % Half)

IsU32(w) == w.hi \in 0..(Half - 1) /\ w.lo \in 0..(Half - 1)

Less32(a, b) == a.hi < b.hi \/ (a.hi = b.hi /\ a.lo < b.lo)

\* w > n, for a small int n
Exceeds(w, n) == w.hi > 0 \/ w.lo > n

add32(a, b) ==
    LET lo == a.lo + b.lo
    IN  U32((a.hi + b.hi + lo \div Half) % Half, lo % Half)

sub32Saturating(a, b) ==
    IF Less32(a, b) THEN Zero32
    ELSE LET lo == a.lo - b.lo
             borrow == IF lo < 0 THEN 1 ELSE 0
         IN  U32(a.hi - b.hi - borrow, (lo + Half) % Half)

sub32(a, b) ==
    LET lo == a.lo - b.lo
        borrow == IF lo < 0 THEN 1 ELSE 0
    IN  U32((a.hi - b.hi - borrow + 2 * Half) % Half, (lo + Half) % Half)

\* the full product of two 16-bit halves
mulHalf(x, y) ==
    LET p0 == (x % 256) * y
        p1 == (x \div 256) * y
    IN  add32(FromNat(p0), U32(p1 \div 256, (p1 % 256) * 256))

mul32(a, b) ==
    LET p == mulHalf(a.lo, b.lo)
        cross == (mulHalf(a.hi, b.lo).lo + mulHalf(a.lo, b.hi).lo) % Half
    IN  U32((p.hi + cross) % Half, p.lo)

\* values the keyboard delivers to std::cin >> value
Values == {Zero32, FromNat(2), UIntMax}

-----------------------------------------------------------------------------
(* std::string helpers *)

Min(a, b) == IF a < b THEN a ELSE b

\* std::string::substr throws std::out_of_range when pos > size()
substrThrows(s, pos) == pos > Len(s)

\* s.substr(pos, n), for pos <= size()
substr(s, pos, n) == SubSeq(s, pos + 1, Min(pos + n, Len(s)))

\* s.substr(pos), for pos <= size()
substrFrom(s, pos) == SubSeq(s, pos + 1, Len(s))

RECURSIVE pow2(_)
pow2(n) == IF n = 0 THEN 1 ELSE 2 * pow2(n - 1)

RECURSIVE binarySumLsbFirst(_, _)
binarySumLsbFirst(binary, i) ==
    IF i > Len(binary) THEN 0
    ELSE (IF binary[i] = "1" THEN pow2(i - 1) ELSE 0)
         + binarySumLsbFirst(binary, i + 1)

RECURSIVE binarySum(_, _)
binarySum(binary, i) ==
    IF i > Len(binary) THEN 0
    ELSE (IF binary[i] = "1" THEN pow2(Len(binary) - i) ELSE 0)
         + binarySum(binary, i + 1)

\* every '1' at 0-based index i adds 2^(length-1-i); any other character adds 0
\* (the strings converted are at most 6 characters long)
binaryToDecimal(binary) == binarySum(binary, 1)

validRegister(reg) ==
    /\ Len(reg) = 2
    /\ (reg[1] = "0" \/ reg[1] = "1")
    /\ (reg[2] = "0" \/ reg[2] = "1")

-----------------------------------------------------------------------------
(* enum Opcode *)

Stop == 0
In == 1
Out == 2
Incr == 3
Add == 4
Sub == 5
Mul == 6
List == 7
ListInit == 8
ListSum == 9
TidyUp == 10

-----------------------------------------------------------------------------
(* Register codes and the tokens programs are built from *)

R00 == <<"0", "0">>
R01 == <<"0", "1">>
R10 == <<"1", "0">>
R11 == <<"1", "1">>
Rx0 == <<"x", "0">>

ValidRegs == {R00, R01, R10, R11}

Z2 == <<"0", "0">>
Z4 == <<"0", "0", "0", "0">>
Z6 == <<"0", "0", "0", "0", "0", "0">>

OpStop == <<"0", "0", "0", "0", "0">>
OpIn == <<"0", "0", "0", "0", "1">>
OpOut == <<"0", "0", "0", "1", "0">>
OpIncr == <<"0", "0", "0", "1", "1">>
OpAdd == <<"0", "0", "1", "0", "0">>
OpSub == <<"0", "0", "1", "0", "1">>
OpMul == <<"0", "0", "1", "1", "0">>
OpList == <<"0", "0", "1", "1", "1">>
OpListInit == <<"0", "1", "0", "0", "0">>
OpListSum == <<"0", "1", "0", "0", "1">>
OpTidyUp == <<"0", "1", "0", "1", "0">>
OpEleven == <<"0", "1", "0", "1", "1">>

\* the literal "0000000000000" searched for by std::find
StopToken == OpStop \o Z6 \o Z2

\* opcode 00000 with non-zero operand bits
StopOperandToken == OpStop \o Z6 \o R01

\* opcode 11, one above TidyUp
BadOpcodeToken == OpEleven \o Z6 \o Z2

InTok == OpIn \o R00 \o Z6
\* In whose destination field holds a non-binary character
InBadTok == OpIn \o Rx0 \o Z6
OutTok == OpOut \o R00 \o Z6
\* Incr amt=5 on 00
IncrTok == OpIncr \o <<"0", "0", "0", "1", "0", "1">> \o R00
\* Add lhs=00 rhs=01 dest=00, trailing bits 00
AddTok == OpAdd \o R00 \o R01 \o R00 \o Z2
\* Add whose lhs field holds a non-binary character
AddBadLhsTok == OpAdd \o Rx0 \o R00 \o R01 \o Z2
\* Sub lhs=01 rhs=00 dest=01
SubTok == OpSub \o R01 \o R00 \o R01 \o Z2
\* Mul lhs=00 rhs=00 dest=01
MulTok == OpMul \o R00 \o R00 \o R01 \o Z2
\* List literal size 3 into 01
ListLitTok == OpList \o <<"0", "0", "0", "0", "1", "1">> \o R01
\* List size from register 00 into 01
ListRegTok == OpList \o R00 \o Z4 \o R01
ListInitTok == OpListInit \o R01 \o Z6
\* ListSum of array 01 into register 00
ListSumTok == OpListSum \o R01 \o R00 \o Z4
TidyUpTok == OpTidyUp \o Z6 \o Z2
\* List with size field 000000: size from register 00, into 00
ListSelfTok == OpList \o R00 \o Z4 \o R00
\* Add lhs=00 rhs=01 dest=00, trailing bits 11
AddTrailTok == OpAdd \o R00 \o R01 \o R00 \o R11
\* Incr amt=3 on 01
IncrOtherTok == OpIncr \o <<"0", "0", "0", "0", "1", "1">> \o R01
\* a one-character token: its opcode substring "1" decodes to In
ShortInTok == <<"1">>
\* a one-character token: its opcode substring "0" decodes to Stop
ShortStopTok == <<"0">>

\* ListSum of array 01 into register 10
ListSumOtherTok == OpListSum \o R01 \o R10 \o Z4

\* the tokens of the programs that work on arrays
ListTokens == {StopToken, InTok, ListLitTok, ListSelfTok, ListInitTok,
               ListSumTok, ListSumOtherTok}

Tokens == {StopToken, StopOperandToken, BadOpcodeToken, InTok, InBadTok,
           OutTok, IncrTok, AddTok, AddBadLhsTok, SubTok, MulTok,
           ListLitTok, ListRegTok, ListInitTok, ListSumTok, TidyUpTok,
           ListSelfTok, AddTrailTok, ShortInTok, ShortStopTok, IncrOtherTok}

-----------------------------------------------------------------------------
(* std::map helpers *)

\* m[k] read through operator[]: a missing key reads as the default value
MapGet(m, k, dflt) == IF k \in DOMAIN m THEN m[k] ELSE dflt

\* operator[] inserts a default-constructed value for a missing key
MapTouch(m, k, dflt) ==
    IF k \in DOMAIN m THEN m ELSE [x \in DOMAIN m \cup {k} |-> IF x = k THEN dflt ELSE m[x]]

\* m[k] = v
MapSet(m, k, v) == [x \in DOMAIN m \cup {k} |-> IF x = k THEN v ELSE m[x]]

EmptyMap == [x \in {} |-> 0]

GarbageVector(n) == [i \in 1..n |-> UIntMax]

\* std::vector<unsigned int>(n): n value-initialised elements
ZeroVector(n) == [i \in 1..n |-> Zero32]

vectorSumLast(v, i) == IF Len(v) = 0 THEN Zero32 ELSE v[Len(v)]

\* for (unsigned int value : v) sum += value
RECURSIVE vectorSum(_, _)
vectorSum(v, i) == IF i > Len(v) THEN Zero32 ELSE add32(v[i], vectorSum(v, i + 1))

-----------------------------------------------------------------------------
(* The run *)

Init ==
    /\ phase = "open"
    /\ memory = <<>>
    /\ it = 0
    /\ registers = EmptyMap
    /\ arrays = EmptyMap
    /\ exitStatus = "none"
    /\ err = "none"
    /\ readLog = <<>>
    /\ written = <<>>
    /\ reported = 0
    /\ callArg = <<>>
    /\ callResult = <<>>

\* return EXIT_FAILURE with an error message, or an uncaught exception
Exit(status, error) ==
    /\ phase' = "exited"
    /\ exitStatus' = status
    /\ err' = error

\* inputFile.fail()
OpenFail ==
    /\ phase = "open"
    /\ Exit("failure", "SourceOpen")
    /\ UNCHANGED <<decoder, memory, it, registers, arrays, readLog, written, reported>>

InitialRegistersButLast == [r \in ValidRegs |-> IF r = R11 THEN UIntMax ELSE Zero32]

\* registers["00"] = 0; ... registers["11"] = 0
InitialRegisters == [r \in ValidRegs |-> Zero32]

OpenOk ==
    /\ phase = "open"
    /\ phase' = "load"
    /\ registers' = InitialRegisters
    /\ UNCHANGED <<decoder, memory, it, arrays, exitStatus, err, readLog, written, reported>>

\* while (inputFile >> instruction) memory.push_back(instruction)
Load ==
    /\ phase = "load"
    /\ Len(memory) < MaxProg
    /\ \E t \in Tokens : memory' = Append(memory, t)
    /\ UNCHANGED <<decoder, phase, it, registers, arrays, exitStatus, err, readLog, written, reported>>

\* the same loop, reading a file of array instructions
LoadList ==
    /\ phase = "load"
    /\ Len(memory) < MaxListProg
    /\ \E t \in ListTokens : memory' = Append(memory, t)
    /\ UNCHANGED <<decoder, phase, it, registers, arrays, exitStatus, err, readLog, written, reported>>

EndLoad ==
    /\ phase = "load"
    /\ phase' = "checkHalt"
    /\ UNCHANGED <<decoder, memory, it, registers, arrays, exitStatus, err, readLog, written, reported>>

HasStopByOpcode(mem) ==
    \E i \in 1..Len(mem) : binaryToDecimal(substr(mem[i], 0, 5)) = Stop

\* std::find(memory.begin(), memory.end(), "0000000000000") != memory.end()
HasStop(mem) == \E i \in 1..Len(mem) : mem[i] = StopToken

CheckHalt ==
    /\ phase = "checkHalt"
    /\ IF ~HasStop(memory)
       THEN Exit("failure", "MissingHalt")
       ELSE phase' = "checkOpcodes" /\ UNCHANGED <<exitStatus, err>>
    /\ UNCHANGED <<decoder, memory, it, registers, arrays, readLog, written, reported>>

validOpcodeLoose(ins) == binaryToDecimal(substr(ins, 0, 5)) <= TidyUp + 1

validOpcode(ins) == ~(binaryToDecimal(substr(ins, 0, 5)) > TidyUp)

CheckOpcodes ==
    /\ phase = "checkOpcodes"
    /\ IF \E i \in 1..Len(memory) : ~validOpcode(memory[i])
       THEN Exit("failure", "InvalidOpcode") /\ it' = it
       ELSE phase' = "exec" /\ it' = 1 /\ UNCHANGED <<exitStatus, err>>
    /\ UNCHANGED <<decoder, memory, registers, arrays, readLog, written, reported>>

\* instruction = *it; opcode = instruction.substr(0, 5)
instruction == memory[it]

opcode == substr(instruction, 0, 5)

Fetching(op) ==
    /\ phase = "exec"
    /\ it <= Len(memory)
    /\ binaryToDecimal(opcode) = op

\* ++it, falling through to the end of the loop body
Advance ==
    /\ it' = it + 1
    /\ UNCHANGED <<phase, exitStatus, err>>

Abort(status, error) ==
    /\ Exit(status, error)
    /\ it' = it

ExecStop ==
    /\ Fetching(Stop)
    /\ reported' = reported + 1
    /\ Advance
    /\ UNCHANGED <<decoder, memory, registers, arrays, readLog, written>>

ExecIn ==
    /\ Fetching(In)
    /\ \E value \in Values :
        /\ readLog' = Append(readLog, value)
        /\ IF substrThrows(instruction, 5)
           THEN Abort("abort", "out_of_range") /\ UNCHANGED registers
           ELSE LET destination == substr(instruction, 5, 2) IN
                IF ~validRegister(destination)
                THEN Abort("failure", "InvalidRegister") /\ UNCHANGED registers
                ELSE registers' = MapSet(registers, destination, value) /\ Advance
    /\ UNCHANGED <<decoder, memory, arrays, written, reported>>

ExecOut ==
    /\ Fetching(Out)
    /\ IF substrThrows(instruction, 5)
       THEN Abort("abort", "out_of_range") /\ UNCHANGED written
       ELSE LET source == substr(instruction, 5, 2) IN
            IF ~validRegister(source)
            THEN Abort("failure", "InvalidRegister") /\ UNCHANGED written
            ELSE written' = Append(written, registers[source]) /\ Advance
    /\ UNCHANGED <<decoder, memory, registers, arrays, readLog, reported>>

incrementedReplaces(old, amount) == FromNat(amount)

\* registers[source] += amount
incremented(old, amount) == add32(old, FromNat(amount))

ExecIncr ==
    /\ Fetching(Incr)
    /\ IF substrThrows(instruction, 5) \/ substrThrows(instruction, 11)
       THEN Abort("abort", "out_of_range") /\ UNCHANGED registers
       ELSE LET amount == binaryToDecimal(substr(instruction, 5, 6))
                source == substrFrom(instruction, 11)
            IN  IF ~validRegister(source)
                THEN Abort("failure", "InvalidRegister") /\ UNCHANGED registers
                ELSE /\ registers' = MapSet(registers, source, incremented(registers[source], amount))
                     /\ Advance
    /\ UNCHANGED <<decoder, memory, arrays, readLog, written, reported>>

\* registers[lhs] + registers[rhs], - or *, in unsigned int
arithResult(op, a, b) ==
    IF op = Add THEN add32(a, b)
    ELSE IF op = Sub THEN sub32(a, b)
    ELSE mul32(a, b)

arithDestinationLast(ins) == substr(ins, 11, 2)

\* destination = instruction.substr(9, 2)
arithDestination(ins) == substr(ins, 9, 2)

\* the common body of the Add, Sub and Mul branches
Arith(op) ==
    /\ Fetching(op)
    /\ IF substrThrows(instruction, 5) \/ substrThrows(instruction, 7)
          \/ substrThrows(instruction, 9)
       THEN Abort("abort", "out_of_range") /\ UNCHANGED registers
       ELSE LET lhs == substr(instruction, 5, 2)
                rhs == substr(instruction, 7, 2)
                destination == arithDestination(instruction)
            IN  IF ~validRegister(destination)
                THEN Abort("failure", "InvalidRegister") /\ UNCHANGED registers
                ELSE /\ registers' =
                          MapSet(MapTouch(MapTouch(registers, lhs, Zero32), rhs, Zero32),
                                 destination,
                                 arithResult(op, MapGet(registers, lhs, Zero32),
                                             MapGet(registers, rhs, Zero32)))
                     /\ Advance
    /\ UNCHANGED <<decoder, memory, arrays, readLog, written, reported>>

ExecAdd == Arith(Add)

ExecSub == Arith(Sub)

ExecMul == Arith(Mul)

\* the size of the vector List allocates: registers[registerAddress] when
\* bits [7:11) are "0000", else the 6-character literal at [5:11)
listAmountAlwaysLiteral(ins, regs) == FromNat(binaryToDecimal(substr(ins, 5, 6)))

listAmountNarrowDiscriminator(ins, regs) ==
    IF substr(ins, 9, 2) = Z2
    THEN regs[substr(ins, 5, 2)]
    ELSE FromNat(binaryToDecimal(substr(ins, 5, 6)))

listAmount(ins, regs) ==
    IF substr(ins, 7, 4) = Z4
    THEN regs[substr(ins, 5, 2)]
    ELSE FromNat(binaryToDecimal(substr(ins, 5, 6)))

ExecList ==
    /\ Fetching(List)
    /\ IF substrThrows(instruction, 7)
       THEN Abort("abort", "out_of_range") /\ UNCHANGED arrays
       ELSE IF substr(instruction, 7, 4) = Z4 /\ ~validRegister(substr(instruction, 5, 2))
       THEN Abort("failure", "InvalidRegister") /\ UNCHANGED arrays
       ELSE IF substrThrows(instruction, 11)
       THEN Abort("abort", "out_of_range") /\ UNCHANGED arrays
       ELSE LET amount == listAmount(instruction, registers)
                source == substrFrom(instruction, 11)
            IN  IF ~validRegister(source)
                THEN Abort("failure", "InvalidRegister") /\ UNCHANGED arrays
                ELSE IF Exceeds(amount, MaxAlloc)
                THEN Abort("abort", "bad_alloc") /\ UNCHANGED arrays
                ELSE arrays' = MapSet(arrays, source, ZeroVector(amount.lo)) /\ Advance
    /\ UNCHANGED <<decoder, memory, registers, readLog, written, reported>>

filledReversed(input, size) == [i \in 1..size |-> input[size + 1 - i]]

\* std::cin >> arrays[source][i], for i = 0 .. size - 1
filled(input, size) == [i \in 1..size |-> input[i]]

ExecListInit ==
    /\ Fetching(ListInit)
    /\ IF substrThrows(instruction, 5)
       THEN Abort("abort", "out_of_range") /\ UNCHANGED <<arrays, readLog>>
       ELSE LET source == substr(instruction, 5, 2) IN
            IF ~validRegister(source)
            THEN Abort("failure", "InvalidRegister") /\ UNCHANGED <<arrays, readLog>>
            ELSE LET size == Len(MapGet(arrays, source, <<>>)) IN
                 \E input \in [1..size -> Values] :
                    /\ arrays' = MapSet(arrays, source, filled(input, size))
                    /\ readLog' = readLog \o [i \in 1..size |-> input[i]]
                    /\ Advance
    /\ UNCHANGED <<decoder, memory, registers, written, reported>>

ExecListSum ==
    /\ Fetching(ListSum)
    /\ IF substrThrows(instruction, 5) \/ substrThrows(instruction, 7)
       THEN Abort("abort", "out_of_range") /\ UNCHANGED <<registers, arrays>>
       ELSE LET source == substr(instruction, 5, 2)
                destination == substr(instruction, 7, 2)
            IN  IF ~(validRegister(source) /\ validRegister(destination))
                THEN Abort("failure", "InvalidRegister") /\ UNCHANGED <<registers, arrays>>
                ELSE /\ arrays' = MapTouch(arrays, source, <<>>)
                     /\ registers' = MapSet(registers, destination,
                                            vectorSum(MapGet(arrays, source, <<>>), 1))
                     /\ Advance
    /\ UNCHANGED <<decoder, memory, readLog, written, reported>>

tidyAllButFirst(regs) == [r \in DOMAIN regs |-> IF r = R00 THEN regs[r] ELSE Zero32]

\* for (auto &reg : registers) reg.second = 0
tidy(regs) == [r \in DOMAIN regs |-> Zero32]

ExecTidyUp ==
    /\ Fetching(TidyUp)
    /\ registers' = tidy(registers)
    /\ Advance
    /\ UNCHANGED <<decoder, memory, arrays, readLog, written, reported>>

LoopEndPastEnd ==
    /\ phase = "exec"
    /\ it > Len(memory) + 1
    /\ Exit("success", "none")
    /\ UNCHANGED <<decoder, memory, it, registers, arrays, readLog, written, reported>>

\* the end of the execution loop: return EXIT_SUCCESS
LoopEnd ==
    /\ phase = "exec"
    /\ it > Len(memory)
    /\ Exit("success", "none")
    /\ UNCHANGED <<decoder, memory, it, registers, arrays, readLog, written, reported>>

Next ==
    \/ OpenFail
    \/ OpenOk
    \/ Load
    \/ EndLoad
    \/ CheckHalt
    \/ CheckOpcodes
    \/ ExecStop
    \/ ExecIn
    \/ ExecOut
    \/ ExecIncr
    \/ ExecAdd
    \/ ExecSub
    \/ ExecMul
    \/ ExecList
    \/ ExecListInit
    \/ ExecListSum
    \/ ExecTidyUp
    \/ LoopEnd

Spec == Init /\ [][Next]_vars

\* the process keeps running until main returns or an exception ends it,
\* and every Console read returns a value
FairSpec == Spec /\ WF_vars(Next)

\* runs over programs of array instructions
ListNext ==
    \/ OpenFail
    \/ OpenOk
    \/ LoadList
    \/ EndLoad
    \/ CheckHalt
    \/ CheckOpcodes
    \/ ExecStop
    \/ ExecIn
    \/ ExecList
    \/ ExecListInit
    \/ ExecListSum
    \/ LoopEnd

ListSpec == Init /\ [][ListNext]_vars

-----------------------------------------------------------------------------
(* The decoding functions on their own: binaryToDecimal on every field of   *)
(* 2, 5 and 6 bits and on the all-zero strings, and the size computation of *)
(* List on every List word, with the registers holding any Console values.  *)

\* the strings of w characters '0' and '1'
BitStrings(w) == [1..w -> {"0", "1"}]

\* the widths of the register, opcode and literal fields
FieldWidths == {2, 5, 6}

\* the strings of '0' only, up to the width of an instruction
ZeroStrings == {[i \in 1..n |-> "0"] : n \in 0..13}

DecodeInputs == UNION {BitStrings(w) : w \in FieldWidths} \cup ZeroStrings

\* the List words: opcode 00111, any 6 size bits, destination 00
ListWords == {OpList \o f \o R00 : f \in BitStrings(6)}

DecodeInit ==
    /\ phase = "decode"
    /\ memory = <<>>
    /\ it = 0
    /\ registers \in [ValidRegs -> Values]
    /\ arrays = EmptyMap
    /\ exitStatus = "none"
    /\ err = "none"
    /\ readLog = <<>>
    /\ written = <<>>
    /\ reported = 0
    /\ callArg \in DecodeInputs \cup ListWords
    /\ callResult = <<>>

\* a call binaryToDecimal(callArg) returns
Decode ==
    /\ phase = "decode"
    /\ callResult = <<>>
    /\ callArg \in DecodeInputs
    /\ callResult' = <<binaryToDecimal(callArg)>>
    /\ UNCHANGED <<phase, memory, it, registers, arrays, exitStatus, err,
                   readLog, written, reported, callArg>>

\* the size computation of the List branch on the word callArg
Amount ==
    /\ phase = "decode"
    /\ callResult = <<>>
    /\ callArg \in ListWords
    /\ callResult' = <<listAmount(callArg, registers)>>
    /\ UNCHANGED <<phase, memory, it, registers, arrays, exitStatus, err,
                   readLog, written, reported, callArg>>

DecodeNext ==
    \/ Decode
    \/ Amount

DecodeSpec == DecodeInit /\ [][DecodeNext]_vars

-----------------------------------------------------------------------------
(* Properties *)

\* bits [a:b) of an instruction word
Bits(ins, a, b) == SubSeq(ins, a + 1, Min(b, Len(ins)))

\* the value the leading 5-bit opcode field decodes to
OpcodeValue(ins) == binaryToDecimal(Bits(ins, 0, 5))

\* no instruction has executed: registers as initialised, no array, and
\* nothing read from or written to the Console
NothingExecuted ==
    /\ registers = [r \in ValidRegs |-> Zero32]
    /\ arrays = EmptyMap
    /\ readLog = <<>>
    /\ written = <<>>
    /\ reported = 0

Rejected(error) ==
    /\ phase = "exited"
    /\ exitStatus = "failure"
    /\ err = error

\* C1: once a Stop instruction has executed, no later instruction executes:
\* the iterator does not move, no register or array changes, nothing is read
\* from or written to the Console, and success is not reported again.
C1_StopEndsExecution ==
    [][reported > 0 => UNCHANGED <<it, registers, arrays, readLog, written, reported>>]_vars

\* C2: a program with no token equal to 0000000000000 is rejected with the
\* missing-halt failure before any instruction executes, whatever else it
\* contains (the program file having been opened).
C2_NoHaltRejected ==
    (/\ phase \notin {"open", "load", "checkHalt"}
     /\ err # "SourceOpen"
     /\ \A i \in 1..Len(memory) : memory[i] # StopToken)
    => (Rejected("MissingHalt") /\ NothingExecuted)

\* a rejected program that holds a token with opcode 00000 and non-zero
\* operand bits, and a token with an out-of-range opcode
C2_Witness ==
    /\ Rejected("MissingHalt")
    /\ \E i \in 1..Len(memory) : memory[i] = StopOperandToken
    /\ \E i \in 1..Len(memory) : memory[i] = BadOpcodeToken

\* the program was loaded and both validation checks have run or rejected it
ValidationOver ==
    /\ phase \notin {"open", "load", "checkHalt", "checkOpcodes"}
    /\ err # "SourceOpen"

HasBadOpcode == \E i \in 1..Len(memory) : OpcodeValue(memory[i]) > 10

\* C3 as stated: a program holding an instruction whose opcode field decodes
\* above 10 is rejected with the invalid-opcode failure and nothing executes.
C3_BadOpcodeRejected_Original ==
    (ValidationOver /\ HasBadOpcode)
    => (Rejected("InvalidOpcode") /\ NothingExecuted)

\* C3 amended: a program that holds the token 0000000000000 and an
\* instruction whose opcode field decodes above 10 is rejected with the
\* invalid-opcode failure, wherever that instruction is stored, and nothing
\* executes.
C3_BadOpcodeRejected ==
    (/\ ValidationOver
     /\ HasBadOpcode
     /\ \E i \in 1..Len(memory) : memory[i] = StopToken)
    => (Rejected("InvalidOpcode") /\ NothingExecuted)

\* the out-of-range opcode is stored last, after an In and the Stop token
C3_Witness ==
    /\ Rejected("InvalidOpcode")
    /\ Len(memory) = 3
    /\ memory[1] = InTok
    /\ memory[2] = StopToken
    /\ memory[3] = BadOpcodeToken

\* C4: a run ends with the success status exactly when a Stop instruction was
\* reached, with the failure status only after an error, and never with the
\* failure status after reporting success.
C4_ExitContract ==
    phase = "exited" =>
        /\ (exitStatus = "success") <=> (reported > 0)
        /\ (exitStatus = "failure") => (err # "none")
        /\ ~(reported > 0 /\ exitStatus = "failure")

\* C5: TidyUp sets every register to 0 and leaves the array table as it was.
C5_TidyUpResets ==
    [][Fetching(TidyUp) =>
        /\ DOMAIN registers' = DOMAIN registers
        /\ \A r \in DOMAIN registers' : registers'[r] = Zero32
        /\ DOMAIN arrays' = DOMAIN arrays
        /\ \A a \in DOMAIN arrays :
              /\ Len(arrays'[a]) = Len(arrays[a])
              /\ \A i \in 1..Len(arrays[a]) : arrays'[a][i] = arrays[a][i]]_vars

\* TidyUp has just run on a register that held a non-zero value read by In
C5_Witness ==
    /\ phase = "exec"
    /\ it = 3
    /\ memory[1] = InTok
    /\ memory[2] = TidyUpTok
    /\ readLog[1] # Zero32
    /\ \A r \in ValidRegs : registers[r] = Zero32

\* the step completes the instruction at the iterator and moves on
Completes == phase' = "exec" /\ it' = it + 1

\* C6: a List that allocates binds to the code in bits [11:13) an array whose
\* size is the value of the register named in bits [5:7) when bits [7:11)
\* are 0000, and the 6-bit literal in bits [5:11) otherwise.
C6_ListSize ==
    [][(Fetching(List) /\ Completes) =>
        /\ Bits(memory[it], 11, 13) \in DOMAIN arrays'
        /\ IF Bits(memory[it], 7, 11) = <<"0", "0", "0", "0">>
           THEN FromNat(Len(arrays'[Bits(memory[it], 11, 13)]))
                    = registers[Bits(memory[it], 5, 7)]
           ELSE Len(arrays'[Bits(memory[it], 11, 13)])
                    = binaryToDecimal(Bits(memory[it], 5, 11))]_vars

\* a List of register-indirect size has just bound an array of 2 elements,
\* the value In stored in register 00
C6_Witness ==
    /\ phase = "exec"
    /\ it = 3
    /\ memory[1] = InTok
    /\ memory[2] = ListRegTok
    /\ registers[R00] = FromNat(2)
    /\ R01 \in DOMAIN arrays
    /\ Len(arrays[R01]) = 2

\* C7: once initialised, the register file consists of exactly the 4
\* registers 00, 01, 10, 11.
C7_RegisterFileFixed ==
    (phase # "open" /\ err # "SourceOpen") => DOMAIN registers = {R00, R01, R10, R11}

\* the 2-bit fields an instruction uses as register codes
RegisterFields(ins) ==
    LET op == OpcodeValue(ins) IN
    IF op \in {In, Out, ListInit} THEN {Bits(ins, 5, 7)}
    ELSE IF op = Incr THEN {Bits(ins, 11, 13)}
    ELSE IF op \in {Add, Sub, Mul} THEN {Bits(ins, 5, 7), Bits(ins, 7, 9), Bits(ins, 9, 11)}
    ELSE IF op = List
         THEN IF Bits(ins, 7, 11) = <<"0", "0", "0", "0">>
              THEN {Bits(ins, 5, 7), Bits(ins, 11, 13)}
              ELSE {Bits(ins, 11, 13)}
    ELSE IF op = ListSum THEN {Bits(ins, 5, 7), Bits(ins, 7, 9)}
    ELSE {}

\* C8: when a register field of the 13-character instruction being executed is not one of
\* 00, 01, 10, 11, the run ends with the failure status and the instruction
\* changes no register or array and reads and writes no Console value.
C8_InvalidRegisterAborts ==
    [][(/\ phase = "exec"
        /\ it <= Len(memory)
        /\ Len(memory[it]) = 13
        /\ \E f \in RegisterFields(memory[it]) : f \notin {R00, R01, R10, R11})
       => (/\ exitStatus' = "failure"
           /\ UNCHANGED <<registers, arrays, readLog, written>>)]_vars

\* C9: the set of codes with an array bound changes only when a List
\* instruction executes.
C9_ArraysOnlyByList ==
    [][DOMAIN arrays' # DOMAIN arrays => Fetching(List)]_vars

\* r + b = a modulo 2^32, checked on the 16-bit halves
SumIs(r, b, a) ==
    /\ IsU32(r)
    /\ (r.lo + b.lo) % Half = a.lo
    /\ (r.hi + b.hi + (r.lo + b.lo) \div Half) % Half = a.hi

\* the 4 bytes of a value, least significant first
Bytes(w) == <<w.lo % 256, w.lo \div 256, w.hi % 256, w.hi \div 256>>

\* the value of 4 columns of byte products, carries propagated, modulo 2^32
Carried(c0, c1, c2, c3) ==
    U32((((c2 + (c1 + c0 \div 256) \div 256) % 256)
         + 256 * ((c3 + (c2 + (c1 + c0 \div 256) \div 256) \div 256) % 256)),
        (c0 % 256) + 256 * ((c1 + c0 \div 256) % 256))

\* a * b modulo 2^32, by long multiplication on the bytes
ByteProduct(x, y) ==
    Carried(x[1] * y[1],
            x[1] * y[2] + x[2] * y[1],
            x[1] * y[3] + x[2] * y[2] + x[3] * y[1],
            x[1] * y[4] + x[2] * y[3] + x[3] * y[2] + x[4] * y[1])

Product(a, b) == ByteProduct(Bytes(a), Bytes(b))

\* the value an arithmetic operand reads from the register file
Operand(k) == IF k \in DOMAIN registers THEN registers[k] ELSE Zero32

\* an Add, Sub or Mul (op) with a valid destination is at the iterator
Computing(op) ==
    /\ Fetching(op)
    /\ Bits(memory[it], 9, 11) \in {R00, R01, R10, R11}

Lhs == Operand(Bits(memory[it], 5, 7))

Rhs == Operand(Bits(memory[it], 7, 9))

\* C10: Add, Sub and Mul with a valid destination store the sum, difference
\* and product modulo 2^32 of the operands and the run continues; Sub with
\* lhs < rhs stores lhs - rhs + 2^32.
C10_ArithWraps ==
    [][/\ Computing(Add) =>
            (Completes /\ SumIs(Lhs, Rhs, registers'[Bits(memory[it], 9, 11)]))
       /\ Computing(Sub) =>
            (Completes /\ SumIs(registers'[Bits(memory[it], 9, 11)], Rhs, Lhs))
       /\ Computing(Mul) =>
            (Completes /\ registers'[Bits(memory[it], 9, 11)] = Product(Lhs, Rhs))]_vars

\* Sub of 0 - 2 has just stored 2^32 - 2 and the run goes on
C10_Witness ==
    /\ phase = "exec"
    /\ it = 3
    /\ memory[1] = InTok
    /\ memory[2] = SubTok
    /\ registers[R00] = FromNat(2)
    /\ registers[R01] = U32(Half - 1, Half - 2)

\* a well-formed Incr word: 13 characters, opcode 3, a valid register code
IsIncr(ins) ==
    /\ Len(ins) = 13
    /\ OpcodeValue(ins) = Incr
    /\ Bits(ins, 11, 13) \in {R00, R01, R10, R11}

\* the program is a sequence of Incr instructions followed by the Stop token
IncrProgram ==
    /\ Len(memory) >= 1
    /\ memory[Len(memory)] = StopToken
    /\ \A i \in 1..(Len(memory) - 1) : IsIncr(memory[i])

\* the sum of the amounts of the first n instructions that name register r
RECURSIVE IncrTotal(_, _)
IncrTotal(r, n) ==
    IF n = 0 THEN 0
    ELSE IncrTotal(r, n - 1)
         + (IF IsIncr(memory[n]) /\ Bits(memory[n], 11, 13) = r
            THEN binaryToDecimal(Bits(memory[n], 5, 11)) ELSE 0)

\* C11: while and after a program of Incr instructions followed by Stop runs,
\* each register holds the sum of the amounts of the executed Incr
\* instructions that name it (0 when none does), and nothing else has changed;
\* the run ends with the success status.
C11_IncrAccumulates ==
    (phase \in {"exec", "exited"} /\ err # "SourceOpen" /\ IncrProgram) =>
        /\ DOMAIN registers = {R00, R01, R10, R11}
        /\ \A r \in {R00, R01, R10, R11} :
              registers[r] = FromNat(IncrTotal(r, Min(it - 1, Len(memory))))
        /\ arrays = EmptyMap
        /\ readLog = <<>>
        /\ written = <<>>
        /\ phase = "exited" => (exitStatus = "success" /\ it = Len(memory) + 1)

\* two Incr of 5 on register 00, then Stop, has ended with 10 in register 00
C11_Witness ==
    /\ phase = "exited"
    /\ memory = <<IncrTok, IncrTok, StopToken>>
    /\ registers[R00] = FromNat(10)
    /\ registers[R01] = Zero32

\* a + b modulo 2^32
Plus(a, b) == U32((a.hi + b.hi + (a.lo + b.lo) \div Half) % Half, (a.lo + b.lo) % Half)

\* the sum modulo 2^32 of the first n elements of v
RECURSIVE Total(_, _)
Total(v, n) == IF n = 0 THEN Zero32 ELSE Plus(Total(v, n - 1), v[n])

\* the array bound to code k, empty when none is
ArrayAt(k) == IF k \in DOMAIN arrays THEN arrays[k] ELSE <<>>

ListSumSrc == Bits(memory[it], 5, 7)

ListSumDest == Bits(memory[it], 7, 9)

\* C12: ListSum stores into the register named in bits [7:9) the sum modulo
\* 2^32 of the elements of the array bound to the code in bits [5:7)
\* (0 for an array List has just created), and leaves that array, every
\* other array and every other register unchanged.
C12_ListSumStores ==
    [][(Fetching(ListSum) /\ Completes) =>
        /\ registers'[ListSumDest] = Total(ArrayAt(ListSumSrc), Len(ArrayAt(ListSumSrc)))
        /\ \A r \in DOMAIN registers \ {ListSumDest} : registers'[r] = registers[r]
        /\ DOMAIN registers' = DOMAIN registers
        /\ \A a \in DOMAIN arrays : arrays'[a] = arrays[a]
        /\ arrays'[ListSumSrc] = ArrayAt(ListSumSrc)]_vars

\* ListSum has stored 2 + 2 + (2^32 - 1) = 3 modulo 2^32 in register 00
C12_Witness ==
    /\ phase = "exec"
    /\ it = 4
    /\ memory = <<ListLitTok, ListInitTok, ListSumTok, StopToken>>
    /\ readLog = <<FromNat(2), FromNat(2), UIntMax>>
    /\ registers[R00] = FromNat(3)
    /\ arrays[R01] = <<FromNat(2), FromNat(2), UIntMax>>

ListDest == Bits(memory[it], 11, 13)

\* C16: List binds to the code in bits [11:13) an array of the computed size
\* whose elements are all 0, whatever was bound to that code before, and
\* leaves the arrays bound to the other codes and all registers unchanged.
C16_ListFresh ==
    [][(Fetching(List) /\ Completes) =>
        /\ DOMAIN arrays' = DOMAIN arrays \cup {ListDest}
        /\ \A i \in 1..Len(arrays'[ListDest]) : arrays'[ListDest][i] = Zero32
        /\ IF Bits(memory[it], 7, 11) = <<"0", "0", "0", "0">>
           THEN FromNat(Len(arrays'[ListDest])) = registers[Bits(memory[it], 5, 7)]
           ELSE Len(arrays'[ListDest]) = binaryToDecimal(Bits(memory[it], 5, 11))
        /\ \A a \in DOMAIN arrays \ {ListDest} : arrays'[a] = arrays[a]
        /\ registers' = registers]_vars

\* a second List into 01 has replaced the array ListInit filled with
\* non-zero values by 3 zeros
C16_Witness ==
    /\ phase = "exec"
    /\ it = 4
    /\ memory = <<ListLitTok, ListInitTok, ListLitTok, StopToken>>
    /\ readLog = <<UIntMax, FromNat(2), UIntMax>>
    /\ arrays[R01] = <<Zero32, Zero32, Zero32>>

\* C13: the 4 registers are 0 when execution begins; executing Stop changes
\* no register or array and reads and writes no Console value; the run of the
\* program made of the single token 0000000000000 ends with the success
\* status, having reported success once, all registers 0 and no array bound.
C13_StopOnly ==
    [][/\ (phase # "exec" /\ phase' = "exec") =>
            /\ DOMAIN registers' = {R00, R01, R10, R11}
            /\ \A r \in {R00, R01, R10, R11} : registers'[r] = Zero32
       /\ Fetching(Stop) =>
            /\ UNCHANGED <<registers, arrays, readLog, written>>
            /\ reported' = reported + 1
       /\ (phase' = "exited" /\ err' # "SourceOpen" /\ memory' = <<StopToken>>) =>
            /\ exitStatus' = "success"
            /\ reported' = 1
            /\ \A r \in {R00, R01, R10, R11} : registers'[r] = Zero32
            /\ arrays' = EmptyMap
            /\ readLog' = <<>>
            /\ written' = <<>>]_vars

\* the run of the program 0000000000000 has ended
C13_Witness ==
    /\ phase = "exited"
    /\ memory = <<StopToken>>
    /\ exitStatus = "success"
    /\ reported = 1

\* the canonical encoding of n in w bits, most significant bit first
Encode(n, w) == [i \in 1..w |-> IF (n \div (2 ^ (w - i))) % 2 = 1 THEN "1" ELSE "0"]

\* C14: for a string of 2, 5 or 6 bits binaryToDecimal returns the one number
\* below 2^w whose canonical w-bit encoding is the string (both round trips),
\* and for the empty string and every all-zero string it returns 0.
C14_RoundTrip ==
    (callResult # <<>> /\ callArg \in DecodeInputs) =>
        /\ Len(callArg) \in {2, 5, 6} =>
              /\ callResult[1] \in 0..(2 ^ Len(callArg) - 1)
              /\ Encode(callResult[1], Len(callArg)) = callArg
              /\ \A n \in 0..(2 ^ Len(callArg) - 1) :
                    Encode(n, Len(callArg)) = callArg => callResult[1] = n
        /\ (\A i \in 1..Len(callArg) : callArg[i] = "0") => callResult[1] = 0

\* binaryToDecimal has returned 45 for 101101
C14_Witness ==
    /\ callArg = <<"1", "0", "1", "1", "0", "1">>
    /\ callResult = <<45>>

\* every character of the string is '0' or '1'
IsBitString(s) == \A i \in 1..Len(s) : s[i] \in {"0", "1"}

\* C19: for a List word of 13 bits, when bits [7:11) differ from 0000 the
\* size is the literal, in 1..63 and not a multiple of 16; a size outside
\* (0, a multiple of 16, above 63) comes from the register-indirect path
\* only; and a word whose size field is 000000 takes the value of register 00.
C19_LiteralNeverZero ==
    (/\ callResult # <<>>
     /\ Len(callArg) = 13
     /\ IsBitString(callArg)
     /\ OpcodeValue(callArg) = List) =>
        /\ Bits(callArg, 7, 11) # <<"0", "0", "0", "0">> =>
              /\ callResult[1].hi = 0
              /\ callResult[1].lo \in 1..63
              /\ callResult[1].lo % 16 # 0
              /\ callResult[1].lo = binaryToDecimal(Bits(callArg, 5, 11))
        /\ (callResult[1].hi # 0 \/ callResult[1].lo \notin 1..63
            \/ callResult[1].lo % 16 = 0) =>
              /\ Bits(callArg, 7, 11) = <<"0", "0", "0", "0">>
              /\ callResult[1] = registers[Bits(callArg, 5, 7)]
        /\ Bits(callArg, 5, 11) = <<"0", "0", "0", "0", "0", "0">> =>
              callResult[1] = registers[R00]

\* the List word with size field 000000 has taken the size 2 from register 00
C19_Witness ==
    /\ callArg = OpList \o Z6 \o R00
    /\ registers[R00] = FromNat(2)
    /\ callResult = <<FromNat(2)>>

\* C15: every run ends; the iterator only moves forward, one instruction at
\* a time, so each stored instruction executes at most once and in stored
\* order; the iterator never passes the end of memory; and memory is not
\* modified once loaded.
C15_Terminates ==
    /\ <>(phase = "exited")
    /\ [][/\ it' \in {it, it + 1}
          /\ it' <= Len(memory') + 1
          /\ (phase = "exec" /\ phase' = "exec") => it' = it + 1
          /\ phase \notin {"open", "load"} => memory' = memory]_vars

\* a run over a program of 3 instructions has ended after one pass
C15_Witness ==
    /\ phase = "exited"
    /\ exitStatus = "success"
    /\ Len(memory) = 3
    /\ it = 4
    /\ Len(readLog) = 3

ArithDest == Bits(memory[it], 9, 11)

\* an Add, Sub or Mul with a valid destination in bits [9:11) is at the iterator
ComputingAny == Computing(Add) \/ Computing(Sub) \/ Computing(Mul)

\* C17: Add, Sub and Mul store in the register named in bits [9:11) the
\* result computed from the values the registers named in bits [5:7) and
\* [7:9) held before the instruction, whatever bits [11:13) are, and change
\* no other of the 4 registers, no array and no Console value.
C17_ArithFrame ==
    [][ComputingAny =>
        /\ Completes
        /\ Fetching(Add) => SumIs(Lhs, Rhs, registers'[ArithDest])
        /\ Fetching(Sub) => SumIs(registers'[ArithDest], Rhs, Lhs)
        /\ Fetching(Mul) => registers'[ArithDest] = Product(Lhs, Rhs)
        /\ \A r \in {R00, R01, R10, R11} \ {ArithDest} : registers'[r] = registers[r]
        /\ UNCHANGED <<arrays, readLog, written, reported>>]_vars

\* Add with lhs 00, rhs 01, destination 00 and trailing bits 11 has stored
\* 0 + 3 in register 00 and left register 11 alone
C17_Witness ==
    /\ phase = "exec"
    /\ it = 3
    /\ memory[1] = IncrOtherTok
    /\ memory[2] = AddTrailTok
    /\ registers[R00] = FromNat(3)
    /\ registers[R01] = FromNat(3)
    /\ registers[R11] = Zero32

ListInitSrc == Bits(memory[it], 5, 7)

\* C18: ListInit on an array of n elements reads n values from the Console
\* and stores the k-th value read at index k-1; the size of the array, the
\* other arrays and the registers do not change, and nothing is read when
\* n = 0 or no array is bound to the code.
C18_ListInitReads ==
    [][(Fetching(ListInit) /\ Completes) =>
        /\ Len(readLog') = Len(readLog) + Len(ArrayAt(ListInitSrc))
        /\ SubSeq(readLog', 1, Len(readLog)) = readLog
        /\ Len(arrays'[ListInitSrc]) = Len(ArrayAt(ListInitSrc))
        /\ \A k \in 1..Len(ArrayAt(ListInitSrc)) :
              arrays'[ListInitSrc][k] = readLog'[Len(readLog) + k]
        /\ \A a \in DOMAIN arrays \ {ListInitSrc} : arrays'[a] = arrays[a]
        /\ UNCHANGED <<registers, written>>]_vars

\* ListInit has read 0, 2 and 2^32 - 1 into the 3 elements of array 01
C18_Witness ==
    /\ phase = "exec"
    /\ it = 3
    /\ memory = <<ListLitTok, ListInitTok, StopToken>>
    /\ readLog = <<Zero32, FromNat(2), UIntMax>>
    /\ arrays[R01] = <<Zero32, FromNat(2), UIntMax>>

====
